---- MODULE Spec2Model ----
(***************************************************************************)
(* Incremental decoding in molcraft: the key/value attention cache         *)
(* (layers.py), the cache-indexed TransformerDecoder (models.py) and the   *)
(* Sampler generation loop (samplers.py).                                  *)
(*                                                                         *)
(* Tensors are modelled symbolically.  A hidden vector is a record         *)
(*   [tok, pe, ctx]                                                        *)
(* tok: the token id whose embedding it carries; pe: for each feature f    *)
(* the row of the position-embedding table the added value was taken from  *)
(* (-1: the zero an out-of-range gather yields); ctx: one element per      *)
(* decoder layer passed, the set of <<key position, key, value>> triples   *)
(* the attention of that layer let the vector see.  A cache entry is the   *)
(* key (kv = 0) or value (kv = 1) projection of a hidden vector, or Zero.  *)
(* Positions are 0-based as in the source; sequences are 1-based.          *)
(***************************************************************************)
EXTENDS Integers, Sequences, FiniteSets, TLC

(* ------------------------------ bounds -------------------------------- *)
BatchRows == {1, 2}                 \* batch rows of one sample call
MaxPromptLen == 1                   \* prompt tokens typed by the user, per row
MaxSequenceLength == 3              \* largest model.sequence_length tried
MaxSteps == 4                       \* decode steps explored
NumLayers == 2                      \* decoder layers (num_layers)
MaxIdsLen == 4                      \* length of an id row handed to detokenize
MaxLogit == 2                      \* logits are drawn from 0..MaxLogit
MaxVocabLen == 3                    \* length of a vocabulary list supplied
MaxStringLen == 2                   \* tokens of a string adapted to or tokenized
EmbeddingDims == {2, 3}             \* embedding_dim values tried

(* --------------------------- tokenizers.py ---------------------------- *)
PAD_TOKEN_ID == 0
OOV_TOKEN_ID == 1
bos_token_id == 2
eos_token_id == 3
FirstLearnedId == 4                 \* len(special_tokens): first learned id

\* Ids a prompt string may pretokenize to: a learned token, or the text
\* "[eos]" itself, which the SMILES pattern splits off as one token.
PromptTokenIds == {eos_token_id, FirstLearnedId}
\* Ids the next-token policy may pick.
SampleIds == {eos_token_id, FirstLearnedId}

RECURSIVE SeqsUpTo(_, _)
SeqsUpTo(S, n) ==
    IF n = 0 THEN {<<>>}
    ELSE LET shorter == SeqsUpTo(S, n - 1)
         IN  shorter \cup {Append(s, x) : s \in shorter, x \in S}

Max(S) == CHOOSE m \in S : \A n \in S : n <= m

\* Tokenizer.tokenize(inputs, ragged=True) with add_bos and add_eos: the
\* begin and end texts are joined around the string before splitting.
tokenize(body) == <<bos_token_id>> \o body \o <<eos_token_id>>

\* RaggedTensor.to_tensor(default_value): rows padded to the longest row.
to_tensor(ragged, default_value) ==
    LET width == Max({Len(ragged[b]) : b \in DOMAIN ragged})
    IN  [b \in DOMAIN ragged |->
            [t \in 1..width |->
                IF t <= Len(ragged[b]) THEN ragged[b][t] ELSE default_value]]

\* Tokenizer.pad(inputs, sequence_length=None): pad value pad_token_id.
pad(inputs) == to_tensor(inputs, PAD_TOKEN_ID)

\* tf.ragged.range(n): 0 .. n-1
ragged_range(n) == [r \in 1..n |-> r - 1]

\* SMILESTokenizer.detokenize: REGEX_PATTERN_CLEANUP removes every "[pad]"
\* and "[bos]" and everything from the first "[eos]" on.  A string is
\* modelled as the sequence of the token texts (ids) it is joined from;
\* no token text holds a line break (which ".*" would stop at).
RECURSIVE detokenize(_)
\* a cleanup pattern without the trailing ".*": only the marker is removed
detokenize_markers_only(ids) ==
    IF ids = <<>> THEN <<>>
    ELSE IF Head(ids) \in {PAD_TOKEN_ID, bos_token_id, eos_token_id}
    THEN detokenize(Tail(ids))
    ELSE <<Head(ids)>> \o detokenize(Tail(ids))

detokenize(ids) ==
    IF ids = <<>> THEN <<>>
    ELSE IF Head(ids) = eos_token_id THEN <<>>
    ELSE IF Head(ids) \in {PAD_TOKEN_ID, bos_token_id} THEN detokenize(Tail(ids))
    ELSE <<Head(ids)>> \o detokenize(Tail(ids))

(* ----------------------------- layers.py ------------------------------ *)
Zero == [kv |-> -1, tok |-> -1, pe |-> <<>>, ctx |-> <<>>]

Hidden(tok, pe) == [tok |-> tok, pe |-> pe, ctx |-> <<>>]

\* _key_dense (kv = 0) / _value_dense (kv = 1) of a hidden vector
Proj(kv, h) == [kv |-> kv, tok |-> h.tok, pe |-> h.pe, ctx |-> h.ctx]

\* A cache update index: absent, or for every row a list of positions
\* (a dense [batch, w] tensor has rows of equal length, a ragged one not).
DenseIndex(val) == [kind |-> "dense", val |-> val]
RaggedIndex(val) == [kind |-> "ragged", val |-> val]

IndexWidth(index) == Max({Len(index.val[b]) : b \in DOMAIN index.val})

\* PositionEmbedding.call.  Without an index: rows 0..T-1 of the table.
\* With an index: take_along_axis(embeddings [S, F], index [B, W], axis=0)
\* broadcasts W against F, so it needs W = 1 or W = F and yields for row b
\* the vector whose feature f is table[index[b][f or 1]][f]; expand_dims
\* then adds that one vector to every token of the row.
\* (embedding_dim >= 2 here: with F = 1 the broadcast changes the shape.)
PositionEmbedding_raises(T, F, S, index) ==
    IF index.kind = "none" THEN T > S
    ELSE IndexWidth(index) \notin {1, F}

\* an out-of-range row of the table: tf.gather_nd fails on CPU and yields
\* zeros on GPU
PositionEmbedding_oob(S, index) ==
    /\ index.kind # "none"
    /\ \E b \in DOMAIN index.val : \E r \in 1..Len(index.val[b]) :
          index.val[b][r] >= S

PositionEmbedding_call(rows, T, F, S, index) ==
    IF index.kind = "none"
    THEN [b \in rows |-> [t \in 1..T |-> [f \in 1..F |-> t - 1]]]
    ELSE LET idx == to_tensor(index.val, 0)
             W == IndexWidth(index)
             row(p) == IF p < S THEN p ELSE -1
         IN  [b \in rows |-> [t \in 1..T |->
                 [f \in 1..F |-> row(idx[b][IF W = 1 THEN 1 ELSE f])]]]

\* _compute_causal_mask comparing one position too far
_compute_causal_mask_off_by_one(rows, input_length, output_length, cache_index) ==
    LET i == IF cache_index.kind = "none"
             THEN [b \in rows |-> [t \in 1..output_length |-> t - 1]]
             ELSE to_tensor(cache_index.val, -1)
    IN  [b \in rows |-> [t \in DOMAIN i[b] |->
            {j \in 0..input_length - 1 : i[b][t] + 1 >= j}]]

\* _compute_causal_mask: for query slot t of row b the set of key
\* positions j in 0..input_length-1 with i[b][t] >= j, where i is the
\* cache index (a ragged one padded with -1), or 0..output_length-1.
_compute_causal_mask(rows, input_length, output_length, cache_index) ==
    LET i == IF cache_index.kind = "none"
             THEN [b \in rows |-> [t \in 1..output_length |-> t - 1]]
             ELSE to_tensor(cache_index.val, -1)
    IN  [b \in rows |-> [t \in DOMAIN i[b] |->
            {j \in 0..input_length - 1 : i[b][t] >= j}]]

\* _cache_update, lines 505-508: the scatter index holds, for the r-th
\* position listed for row b, the target (b, index[b][r]); an entry is
\* <<b, r, position>>
scatter_index(index) ==
    UNION {{<<b, r, index.val[b][r]>> : r \in 1..Len(index.val[b])} :
           b \in DOMAIN index.val}

\* a variant of _cache_update that takes the index as a dense tensor padded
\* to the longest row: every slot of the update is written, padding too
_cache_update_padded(cache, index, update) ==
    [b \in DOMAIN cache |-> [j \in DOMAIN cache[b] |->
        IF j + 1 \in DOMAIN update[b] THEN update[b][j + 1] ELSE cache[b][j]]]

\* _cache_update with the row id left out of the scatter index: a listed
\* position is written in every row
_cache_update_any_row(cache, index, update) ==
    [b \in DOMAIN cache |-> [j \in DOMAIN cache[b] |->
        IF \E b2 \in DOMAIN cache : \E r \in 1..Len(index.val[b2]) :
               index.val[b2][r] = j
        THEN update[b][1]
        ELSE cache[b][j]]]

\* _cache_update: RaggedTensor.from_tensor, gather update[b][r] for every
\* listed position r of row b, scatter it to cache[b][index[b][r]].  A
\* position outside the cache is dropped by the GPU kernel (the CPU kernel
\* fails, see _cache_update_oob); the lists the callers build hold no
\* position twice.
_cache_update(cache, index, update) ==
    [b \in DOMAIN cache |-> [j \in DOMAIN cache[b] |->
        IF \E r \in 1..Len(index.val[b]) : index.val[b][r] = j
        THEN update[b][CHOOSE r \in 1..Len(index.val[b]) : index.val[b][r] = j]
        ELSE cache[b][j]]]

_cache_update_oob(max_length, index) ==
    \E b \in DOMAIN index.val : \E r \in 1..Len(index.val[b]) :
        index.val[b][r] \notin 0..max_length - 1

\* An optional tensor argument: absent, or present with its value.
Absent == [kind |-> "none"]
Given(val) == [kind |-> "some", val |-> val]

\* _merge_padding_and_attention_mask.  A mask is, for every query slot t of
\* row b, the set of key positions it allows; a padding mask [batch, keys]
\* is expanded over the query axis, and two masks merge by minimum
\* (intersection).  The inputs carry no _keras_mask here: the sum of the
\* embeddings that TransformerDecoder.call passes on is a plain tensor.
_merge_padding_and_attention_mask(inputs, padding_mask, attention_mask) ==
    LET mask == IF padding_mask.kind = "none" THEN Absent
                ELSE Given([b \in DOMAIN inputs |-> [t \in DOMAIN inputs[b] |->
                               padding_mask.val[b]]])
    IN  IF attention_mask.kind # "none"
        THEN IF mask.kind = "none" THEN attention_mask
             ELSE Given([b \in DOMAIN inputs |-> [t \in DOMAIN inputs[b] |->
                     mask.val[b][t] \cap attention_mask.val[b][t]]])
        ELSE mask

\* TransformerDecoderLayer._compute_self_attention_mask (dseq: the decoder
\* sequence, pmask / amask: decoder_padding_mask / decoder_attention_mask,
\* causal: use_causal_mask, cache / index: the self-attention cache slice
\* and its update index).  input_length is the cache's max_length when a
\* cache is passed.
_compute_self_attention_mask(dseq, pmask, amask, causal, cache, index) ==
    LET decoder_mask == _merge_padding_and_attention_mask(dseq, pmask, amask)
        rows == DOMAIN dseq
        output_length == Max({Len(dseq[b]) : b \in rows})
        input_length ==
            IF cache.kind = "none" THEN output_length
            ELSE Max({Cardinality(DOMAIN cache.val[b][0]) : b \in rows})
        causal_mask ==
            _compute_causal_mask(rows, input_length, output_length, index)
    IN  IF causal
        THEN IF decoder_mask.kind # "none"
             THEN Given([b \in rows |-> [t \in DOMAIN causal_mask[b] |->
                     decoder_mask.val[b][t] \cap causal_mask[b][t]]])
             ELSE Given(causal_mask)
        ELSE decoder_mask

\* _compute_attention with the mask dropped
Attend_unmasked(key, value, attention_mask, b, t) ==
    {<<j, key[b][j], value[b][j]>> : j \in DOMAIN key[b]}

\* _compute_attention (Keras): query slot t of row b sees exactly the keys
\* and values at the positions its mask row allows.  (A mask row allows
\* nothing only for a padding slot of a ragged priming call, whose output
\* no caller reads.)
Attend(key, value, attention_mask, b, t) ==
    {<<j, key[b][j], value[b][j]>> :
        j \in IF attention_mask.kind = "none" THEN DOMAIN key[b]
              ELSE attention_mask.val[b][t] \cap DOMAIN key[b]}

\* a variant that projects and writes the new key/value into the cache even
\* when no update index is passed (at position 0)
AttentionKeyValue_always_writes(value, cache, index, kv) ==
    IF cache.kind = "none"
    THEN [b \in DOMAIN value |-> [j \in 0..Len(value[b]) - 1 |->
             Proj(kv, value[b][j + 1])]]
    ELSE _cache_update([b \in DOMAIN value |-> cache.val[b][kv]],
             IF index.kind = "none"
             THEN DenseIndex([b \in DOMAIN value |-> <<0>>]) ELSE index,
             [b \in DOMAIN value |-> [t \in DOMAIN value[b] |->
                 Proj(kv, value[b][t])]])

\* KeyValueCachedMultiHeadAttention.call, lines 306-324: the keys (kv = 0)
\* or values (kv = 1) attended over.  cache is the slice of one layer,
\* cache.val[b][0] the keys and cache.val[b][1] the values of row b.
AttentionKeyValue(value, cache, index, kv) ==
    IF cache.kind = "none"
    THEN [b \in DOMAIN value |-> [j \in 0..Len(value[b]) - 1 |->
             Proj(kv, value[b][j + 1])]]
    ELSE IF index.kind = "none"
    THEN [b \in DOMAIN value |-> cache.val[b][kv]]
    ELSE _cache_update([b \in DOMAIN value |-> cache.val[b][kv]], index,
             [b \in DOMAIN value |-> [t \in DOMAIN value[b] |->
                 Proj(kv, value[b][t])]])

\* KeyValueCachedMultiHeadAttention.call, lines 326-338
AttentionReturn(query, attention_mask, cache, key, value) ==
    IF cache.kind = "none"
    THEN <<[b \in DOMAIN query |-> [t \in DOMAIN query[b] |->
               Attend(key, value, attention_mask, b, t)]]>>
    ELSE <<[b \in DOMAIN query |-> [t \in DOMAIN query[b] |->
               Attend(key, value, attention_mask, b, t)]],
           Given([b \in DOMAIN query |-> [kv \in 0..1 |->
               IF kv = 0 THEN key[b] ELSE value[b]]])>>

\* KeyValueCachedMultiHeadAttention.call(query, value, attention_mask,
\* cache, cache_update_index).
\* Returns <<attention_output>> or <<attention_output, cache>>.
KeyValueCachedMultiHeadAttention_call(query, value, attention_mask, cache, index) ==
    AttentionReturn(query, attention_mask, cache,
                    AttentionKeyValue(value, cache, index, 0),
                    AttentionKeyValue(value, cache, index, 1))

\* residual add and normalisation after an attention sublayer: the vector
\* now also depends on what the sublayer attended
AddAttention(x, attention_output) ==
    [b \in DOMAIN x |-> [t \in DOMAIN x[b] |->
        [x[b][t] EXCEPT !.ctx = Append(@, attention_output[b][t])]]]

\* TransformerDecoderLayer.call, lines 214-230 (the feed-forward sublayer
\* acts on each vector alone); x: the sequence after self-attention,
\* cross_out: what the cross-attention sublayer returned.
LayerReturn(x, scache, ccache, has_cross, cross_out) ==
    IF scache.kind # "none"
    THEN IF has_cross
         THEN <<AddAttention(x, cross_out[1]), scache,
                IF ccache.kind # "none" THEN cross_out[2] ELSE ccache>>
         ELSE <<x, scache>>
    ELSE IF has_cross THEN <<AddAttention(x, cross_out[1])>> ELSE <<x>>

\* TransformerDecoderLayer.call, lines 190-212: the cross-attention
\* sublayer, attending the encoder sequence under its padding mask
LayerCross(x, eseq, scache, ccache, cindex, has_cross) ==
    LayerReturn(x, scache, ccache, has_cross,
        KeyValueCachedMultiHeadAttention_call(x, eseq.val,
            _merge_padding_and_attention_mask(eseq.val, Absent, Absent),
            ccache, cindex))

\* TransformerDecoderLayer.call, lines 181-188
LayerSelf(dseq, eseq, scache, ccache, cindex, has_cross, self_out) ==
    LayerCross(AddAttention(dseq, self_out[1]), eseq,
               IF scache.kind = "none" THEN Absent ELSE self_out[2],
               ccache, cindex, has_cross)

\* TransformerDecoderLayer.call(decoder_sequence, encoder_sequence,
\* self_attention_cache, self_attention_cache_update_index,
\* cross_attention_cache, cross_attention_cache_update_index,
\* use_causal_mask); has_cross: the layer was built with an encoder
\* sequence shape (cross_attention_layer is not None).
\* Returns <<x>>, <<x, self cache>> or <<x, self cache, cross cache>>.
TransformerDecoderLayer_call(dseq, eseq, scache, sindex, ccache, cindex, causal, has_cross) ==
    LayerSelf(dseq, eseq, scache, ccache, cindex, has_cross,
        KeyValueCachedMultiHeadAttention_call(dseq, dseq,
            _compute_self_attention_mask(dseq, Absent, Absent, causal,
                                         scache, sindex),
            scache, sindex))

(* ----------------------------- models.py ------------------------------ *)
\* A multi-layer cache is cache[b][layer][kv][position]
\* (shape [batch, layers, 2, max_length, heads, head_dim]).
\* TransformerDecoder.initialize_attention_cache
initialize_attention_cache(rows, sequence_length) ==
    [b \in rows |-> [l \in 0..NumLayers - 1 |-> [kv \in 0..1 |->
        [j \in 0..sequence_length - 1 |-> Zero]]]]

\* cache[:, i, :, :, :, :] of an optional cache
LayerSlice(cache, i) ==
    IF cache.kind = "none" THEN Absent
    ELSE Given([b \in DOMAIN cache.val |-> cache.val[b][i]])

\* TransformerDecoder.call, lines 115-119: token plus position embedding
Embedding(dseq, sindex, F, S, position) ==
    [b \in DOMAIN dseq |-> [t \in DOMAIN dseq[b] |->
        Hidden(dseq[b][t], position[b][t])]]

\* TransformerDecoder.call, lines 127-152: what decoder layer i returns
RECURSIVE LayerOutput(_, _, _, _, _, _, _)
LayerOutput(i, embedding, scache, sindex, enc, ccache, cindex) ==
    TransformerDecoderLayer_call(
        IF i = 0 THEN embedding
        ELSE LayerOutput(i - 1, embedding, scache, sindex, enc, ccache,
                         cindex)[1],
        enc, LayerSlice(scache, i), sindex, LayerSlice(ccache, i), cindex,
        TRUE, enc.kind # "none")

\* TransformerDecoder.call, lines 154-176: restack the caches, project
DecoderReturn(rows, scache, ccache, output) ==
    IF scache.kind = "none" /\ ccache.kind = "none"
    THEN <<output[NumLayers - 1][1]>>
    ELSE IF ccache.kind = "none"
    THEN <<output[NumLayers - 1][1],
           Given([b \in rows |-> [l \in 0..NumLayers - 1 |->
               output[l][2].val[b]]])>>
    ELSE <<output[NumLayers - 1][1],
           Given([b \in rows |-> [l \in 0..NumLayers - 1 |->
               output[l][2].val[b]]]),
           Given([b \in rows |-> [l \in 0..NumLayers - 1 |->
               output[l][3].val[b]]])>>

\* TransformerDecoder.call(decoder_sequence, self_attention_cache,
\* self_attention_cache_update_index, encoder_output, cross_attention_cache,
\* cross_attention_cache_update_index) of a model with embedding_dim F and
\* sequence_length S whose layers were built with a cross-attention
\* sublayer iff an encoder output is passed.
\* Returns <<logits>>, <<logits, self cache>> or
\* <<logits, self cache, cross cache>>.
TransformerDecoder_call(dseq, scache, sindex, enc, ccache, cindex, F, S) ==
    DecoderReturn(DOMAIN dseq, scache, ccache,
        [i \in 0..NumLayers - 1 |->
            LayerOutput(i,
                Embedding(dseq, sindex, F, S,
                    PositionEmbedding_call(DOMAIN dseq,
                        Max({Len(dseq[b]) : b \in DOMAIN dseq}),
                        F, S, sindex)),
                scache, sindex, enc, ccache, cindex)])

\* The call fails: the position index does not broadcast against the
\* embedding table, or a cross-attention cache is passed to layers that
\* return none (updated_attention_cache[1] does not exist).
TransformerDecoder_raises(dseq, scache, sindex, enc, ccache, cindex, F, S) ==
    \/ PositionEmbedding_raises(Max({Len(dseq[b]) : b \in DOMAIN dseq}),
                                F, S, sindex)
    \/ ccache.kind # "none" /\ (scache.kind = "none" \/ enc.kind = "none")

\* The call gathers or scatters outside a tensor: undefined, the CPU
\* kernels fail and the GPU kernels yield zeros / drop the write.
TransformerDecoder_oob(scache, sindex, ccache, cindex, S) ==
    \/ PositionEmbedding_oob(S, sindex)
    \/ /\ scache.kind # "none" /\ sindex.kind # "none"
       /\ \E b \in DOMAIN scache.val :
             _cache_update_oob(Cardinality(DOMAIN scache.val[b][0][0]), sindex)
    \/ /\ ccache.kind # "none" /\ cindex.kind # "none"
       /\ \E b \in DOMAIN ccache.val :
             _cache_update_oob(Cardinality(DOMAIN ccache.val[b][0][0]), cindex)

(* ---------------------------- samplers.py ----------------------------- *)
VARIABLES
    pc,                 \* "start", "loop" (in ops.while_loop), "done", "error"
    decoder_sequence,   \* the prompt strings passed to Sampler.sample
    decoder_sequence_type, \* whether they come as a tensor, and the dtype
    encoder_sequence,   \* absent, or whether a tensor and its dtype
    raised,             \* where the call raised, once pc = "error"
    sequence_length,    \* model.sequence_length
    embedding_dim,      \* model.embedding_dim
    decoder_input,      \* _prepare: the ragged prompt ids, end token stripped
    tokens,             \* the TensorArray of _generate, one vector per slot
    self_attention_cache,
    self_attention_cache_update_index,
    logits,             \* what the last model call returned for each row
    write_log,          \* per model call, the cache positions each row wrote
    decoder_output,     \* __call__: the ids handed to detokenize
    result,             \* __call__: the strings returned
    fn_in,              \* input of the function under check (function specs)
    fn_out              \* its result

vars == <<pc, decoder_sequence, decoder_sequence_type, encoder_sequence,
                   raised, sequence_length, embedding_dim, decoder_input,
          tokens, self_attention_cache, self_attention_cache_update_index,
          logits, write_log, decoder_output, result, fn_in, fn_out>>

Unset == <<>>

Prompts == [BatchRows -> SeqsUpTo(PromptTokenIds, MaxPromptLen)]
SequenceLengths == 2..MaxSequenceLength

\* Sampler._generate._cond
_cond(toks) ==
    ~ \A b \in BatchRows : \E k \in 1..Len(toks) : toks[k][b] = eos_token_id

\* Sampler.get_next_token: tf.random.categorical draws one id per row
get_next_token(lgts) == [DOMAIN lgts -> SampleIds]

\* Sampler._prepare, lines 81-98: what it hands to the model
PrepareInput == [b \in BatchRows |->
                    LET ids == tokenize(decoder_sequence[b])
                    IN  SubSeq(ids, 1, Len(ids) - 1)]
PrepareIndex == RaggedIndex([b \in BatchRows |->
                    ragged_range(Len(PrepareInput[b]))])
PrepareCache == Given(initialize_attention_cache(BatchRows, sequence_length))

PrepareRaises ==
    TransformerDecoder_raises(pad(PrepareInput), PrepareCache, PrepareIndex,
        Absent, Absent, Absent, embedding_dim, sequence_length)
PrepareOob ==
    TransformerDecoder_oob(PrepareCache, PrepareIndex, Absent, Absent,
                           sequence_length)

Fail(where) ==
    /\ pc' = "error"
    /\ raised' = where
    /\ UNCHANGED <<decoder_sequence, decoder_sequence_type, encoder_sequence,
                   sequence_length, embedding_dim,
                   decoder_input, tokens, self_attention_cache,
                   self_attention_cache_update_index, logits, write_log,
                   decoder_output, result, fn_in, fn_out>>

\* a variant of _prepare that takes the seed token from the last column of
\* the padded prompt tensor (padding for the shorter rows)
PrepareReturn_last_column(out) ==
    /\ decoder_input' = PrepareInput
    /\ self_attention_cache' = out[2].val
    /\ self_attention_cache_update_index' = [b \in BatchRows |-> 0]
    /\ logits' = out[1]
    /\ write_log' = <<PrepareIndex.val>>
    /\ tokens' = <<[b \in BatchRows |->
                      pad(PrepareInput)[b][Len(pad(PrepareInput)[b])]]>>

\* Sampler._prepare, lines 111-128, and the TensorArray set-up of
\* _generate (tokens.write(0, current_token)); out: what the model returned
PrepareReturn(out) ==
    /\ decoder_input' = PrepareInput
    /\ self_attention_cache' = out[2].val
    /\ self_attention_cache_update_index' = [b \in BatchRows |-> 0]
    /\ logits' = out[1]
    /\ write_log' = <<PrepareIndex.val>>
    /\ tokens' = <<[b \in BatchRows |->
                      PrepareInput[b][Len(PrepareInput[b])]]>>

\* Sampler.sample, lines 39-50: a value that is no tensor is converted and
\* its dtype tested; a tensor is passed on as it is
SampleRejects ==
    \/ /\ ~ decoder_sequence_type.is_tensor
       /\ decoder_sequence_type.dtype # "string"
    \/ /\ encoder_sequence.kind # "none"
       /\ ~ encoder_sequence.val.is_tensor
       /\ encoder_sequence.val.dtype # "string"

\* the encoder output __call__ hands to _prepare: one vector per position
EncoderOutput ==
    [b \in BatchRows |-> [t \in 1..MaxPromptLen + 1 |->
        Hidden(OOV_TOKEN_ID, <<t - 1>>)]]

\* the model call of _prepare when an encoder output is passed
PrepareRaisesEncoder ==
    TransformerDecoder_raises(pad(PrepareInput), PrepareCache, PrepareIndex,
        Given(EncoderOutput), PrepareCache, PrepareIndex,
        embedding_dim, sequence_length)

\* Sampler.sample, Sampler.__call__ and Sampler._prepare followed by the
\* set-up of _generate
Prepare ==
    /\ pc = "start"
    /\ ~ SampleRejects
    /\ decoder_sequence_type.dtype = "string"
    /\ encoder_sequence.kind = "none"
    /\ ~ PrepareRaises
    /\ PrepareReturn(TransformerDecoder_call(pad(PrepareInput), PrepareCache,
           PrepareIndex, Absent, Absent, Absent,
           embedding_dim, sequence_length))
    /\ pc' = "loop"
    /\ UNCHANGED <<decoder_sequence, decoder_sequence_type, encoder_sequence,
                   raised, sequence_length, embedding_dim,
                   decoder_output, result, fn_in, fn_out>>

\* Sampler.sample raises the ValueError of its dtype test
SampleRaises ==
    /\ pc = "start"
    /\ SampleRejects
    /\ Fail("sample")

\* Sampler._prepare raises: in tokenize (tf.strings.join of a tensor that
\* holds no strings), in the model call (the position index does not
\* broadcast, an index outside the cache on CPU, an encoder output of
\* strings), or, with an encoder output, at line 100, where the three
\* values the model returned are unpacked into two names
PrepareFails ==
    /\ pc = "start"
    /\ ~ SampleRejects
    /\ IF decoder_sequence_type.dtype # "string" THEN Fail("tokenize")
       ELSE IF encoder_sequence.kind = "none"
       THEN (PrepareRaises \/ PrepareOob) /\ Fail("model")
       ELSE IF encoder_sequence.val.dtype = "string" \/ PrepareRaisesEncoder
       THEN Fail("model")
       ELSE Fail("unpack")

StepIndex == DenseIndex([b \in BatchRows |->
                 <<self_attention_cache_update_index[b]>>])
StepOob ==
    TransformerDecoder_oob(Given(self_attention_cache), StepIndex,
                           Absent, Absent, sequence_length)

\* a variant of the step that leaves alone the rows that have emitted an
\* end token: they repeat the end token and keep their cache index
StepReturn_skips_ended(outputs) ==
    LET ended == {b \in BatchRows :
                     \E k \in 2..Len(tokens) : tokens[k][b] = eos_token_id}
    IN  /\ \E next_token \in get_next_token(outputs[1]) :
              tokens' = Append(tokens, [b \in BatchRows |->
                            IF b \in ended THEN eos_token_id ELSE next_token[b]])
        /\ logits' = outputs[1]
        /\ self_attention_cache' = outputs[2].val
        /\ write_log' = Append(write_log, StepIndex.val)
        /\ self_attention_cache_update_index' =
               [b \in BatchRows |->
                   IF b \in ended THEN self_attention_cache_update_index[b]
                   ELSE self_attention_cache_update_index[b] + 1]

\* Sampler._generate._step, lines 195-225; outputs: what the model returned
StepReturn(outputs) ==
    /\ \E next_token \in get_next_token(outputs[1]) :
          tokens' = Append(tokens, next_token)
    /\ logits' = outputs[1]
    /\ self_attention_cache' = outputs[2].val
    /\ write_log' = Append(write_log, StepIndex.val)
    /\ self_attention_cache_update_index' =
           [b \in BatchRows |-> self_attention_cache_update_index[b] + 1]

\* Sampler._generate._step: one iteration of ops.while_loop
Step ==
    /\ pc = "loop"
    /\ _cond(tokens)
    /\ Len(tokens) <= MaxSteps
    /\ StepReturn(TransformerDecoder_call(
           [b \in BatchRows |-> <<tokens[Len(tokens)][b]>>],
           Given(self_attention_cache), StepIndex, Absent, Absent, Absent,
           embedding_dim, sequence_length))
    /\ UNCHANGED <<pc, decoder_sequence, decoder_sequence_type, encoder_sequence,
                   raised, sequence_length, embedding_dim,
                   decoder_input, decoder_output, result, fn_in, fn_out>>

\* the model call of a step fails (an index outside the cache, CPU kernels)
StepFails ==
    /\ pc = "loop"
    /\ _cond(tokens)
    /\ Len(tokens) <= MaxSteps
    /\ StepOob
    /\ Fail("step")

\* _cond is false: _unpack_array, then Sampler.__call__ lines 67-71
Finish ==
    /\ pc = "loop"
    /\ ~ _cond(tokens)
    /\ LET unpacked == [b \in BatchRows |->
                           [k \in 1..Len(tokens) |-> tokens[k][b]]]
           ids == [b \in BatchRows |-> decoder_input[b] \o unpacked[b]]
       IN  /\ decoder_output' = ids
           /\ result' = [b \in BatchRows |-> detokenize(ids[b])]
    /\ pc' = "done"
    /\ UNCHANGED <<decoder_sequence, decoder_sequence_type, encoder_sequence,
                   raised, sequence_length, embedding_dim,
                   decoder_input, tokens, self_attention_cache,
                   self_attention_cache_update_index, logits, write_log,
                   fn_in, fn_out>>

SequenceTypes(dtypes) == [is_tensor : BOOLEAN, dtype : dtypes]

Init ==
    /\ pc = "start"
    /\ decoder_sequence_type \in SequenceTypes({"string", "int32"})
    /\ encoder_sequence \in
          {Absent} \cup {Given(t) : t \in SequenceTypes({"string", "float32"})}
    /\ raised = Unset
    /\ decoder_sequence \in
          IF decoder_sequence_type.dtype = "string" THEN Prompts
          ELSE {[b \in BatchRows |-> <<>>]}
    /\ sequence_length \in SequenceLengths
    /\ embedding_dim \in EmbeddingDims
    /\ decoder_input = Unset
    /\ tokens = Unset
    /\ self_attention_cache = Unset
    /\ self_attention_cache_update_index = Unset
    /\ logits = Unset
    /\ write_log = Unset
    /\ decoder_output = Unset
    /\ result = Unset
    /\ fn_in = Unset
    /\ fn_out = Unset

Next == SampleRaises \/ Prepare \/ PrepareFails \/ Step \/ StepFails \/ Finish

Spec == Init /\ [][Next]_vars

(* ------------------------- Sampler properties -------------------------- *)
\* decode steps run so far
NumSteps == Len(tokens) - 1

\* the tokens row b emitted in decode steps, in step order
Emitted(b) == [k \in 1..NumSteps |-> tokens[k + 1][b]]

\* every position some write of row b has targeted so far
Written(b) ==
    UNION {{write_log[k][b][r] : r \in 1..Len(write_log[k][b])} :
           k \in 1..Len(write_log)}

\* the key positions the last model call let slot t of row b attend
Attended(b, t) ==
    UNION {{c[1] : c \in logits[b][t].ctx[l]} : l \in 1..Len(logits[b][t].ctx)}

\* C1: in the decode loop each row's self-attention cache index equals the
\* row's prompt length (the end token stripped) plus the steps run so far.
C1_IndexIsPromptLengthPlusSteps ==
    pc = "loop" =>
        \A b \in BatchRows :
            self_attention_cache_update_index[b] =
                Len(decoder_input[b]) + NumSteps

\* C2: the ids handed to detokenize are the row's prompt tokens followed by
\* the tokens of the decode steps in step order, each exactly once.
C2_OutputIsPromptThenEmitted ==
    pc = "done" =>
        \A b \in BatchRows : decoder_output[b] = decoder_input[b] \o Emitted(b)

\* C3: the loop goes on exactly while some row has emitted no end token in
\* a decode step; once it has stopped every row has emitted one.
C3_StopsWhenAllEmittedEnd ==
    /\ pc = "loop" =>
          (_cond(tokens) <=>
              ~ \A b \in BatchRows : \E k \in 1..NumSteps :
                    Emitted(b)[k] = eos_token_id)
    /\ pc = "done" =>
          \A b \in BatchRows : \E k \in 1..NumSteps :
              Emitted(b)[k] = eos_token_id

\* C4: the decode steps of a call never outnumber, for any row, the cache's
\* max_length minus the row's prompt length.
C4_StepsBoundedByMaxLength ==
    pc \in {"loop", "done"} =>
        \A b \in BatchRows :
            NumSteps <= sequence_length - Len(decoder_input[b])

\* C5: every cache write of a call (priming and each decode step) targets,
\* for every row, a position < max_length.
C5_WriteIndexBelowMaxLength ==
    \A k \in 1..Len(write_log) : \A b \in BatchRows :
        \A r \in 1..Len(write_log[k][b]) :
            write_log[k][b][r] < sequence_length

\* C6: per row, no write targets a position lower than one an earlier
\* write (priming or an earlier step) targeted.
C6_WritePositionsNonDecreasing ==
    \A k1 \in 1..Len(write_log) : \A k2 \in k1 + 1..Len(write_log) :
        \A b \in BatchRows :
            \A r1 \in 1..Len(write_log[k1][b]) :
                \A r2 \in 1..Len(write_log[k2][b]) :
                    write_log[k1][b][r1] <= write_log[k2][b][r2]

\* C9: every cache position the mask lets a token of a row attend, at
\* priming and at every decode step, has been written for that row and no
\* longer holds the zero it was initialized with.  (The slots of a row are
\* its tokens, as many as the call lists positions for it, then padding.)
C9_AttendedPositionsWritten ==
    pc = "loop" =>
        \A b \in BatchRows : \A t \in 1..Len(write_log[Len(write_log)][b]) :
            /\ Attended(b, t) \subseteq Written(b)
            /\ \A l \in 1..Len(logits[b][t].ctx) :
                   \A c \in logits[b][t].ctx[l] :
                       c[2] # Zero /\ c[3] # Zero

\* C9 witness: a decode step after a ragged priming (rows of different
\* prompt lengths) in which a row attends more than one position.
C9_Witness ==
    /\ pc = "loop"
    /\ NumSteps >= 2
    /\ Len(decoder_input[1]) # Len(decoder_input[2])
    /\ \E b \in BatchRows : Cardinality(Attended(b, 1)) >= 2

\* the cache positions of row b's prompt tokens, written by priming
PromptPositions(b) == 0..Len(decoder_input[b]) - 1

\* C19: at every decode step no decode step has written a cache position
\* that holds a prompt token of the row, and the step's self-attention
\* attends all of the row's prompt positions.
C19_PromptKeptAndAttended ==
    pc = "loop" /\ NumSteps >= 1 =>
        \A b \in BatchRows :
            /\ \A k \in 2..Len(write_log) : \A r \in 1..Len(write_log[k][b]) :
                   write_log[k][b][r] \notin PromptPositions(b)
            /\ PromptPositions(b) \subseteq Attended(b, 1)

\* C20: a call with an encoder output sets the cross-attention cache once,
\* in priming, and then runs its decode steps without writing it: such a
\* call fails only on its inputs (the dtype test, tokenize, the shapes the
\* model call needs) and otherwise gets from priming to the decode loop.
C20_CrossCacheSetOnce ==
    encoder_sequence.kind # "none" /\ pc = "error" =>
        raised \in {"sample", "tokenize", "model"}

\* C21: every decode step appends one token for every row, an ended row
\* included, keeps the tokens buffered before, and adds one to every row's
\* cache index.
C21_EveryRowSteps ==
    [][pc = "loop" /\ pc' = "loop" =>
          /\ Len(tokens') = Len(tokens) + 1
          /\ SubSeq(tokens', 1, Len(tokens)) = tokens
          /\ DOMAIN tokens'[Len(tokens')] = BatchRows
          /\ \A b \in BatchRows :
                 self_attention_cache_update_index'[b] =
                     self_attention_cache_update_index[b] + 1]_vars

\* C21 witness: a row that emitted the end token in the first step has been
\* stepped again, emitted another token and had its index advanced.
C21_Witness ==
    /\ pc = "loop"
    /\ NumSteps >= 2
    /\ \E b \in BatchRows :
           /\ tokens[2][b] = eos_token_id
           /\ tokens[3][b] # eos_token_id
           /\ self_attention_cache_update_index[b] = NumSteps

\* C22: the seed token of a row is the last token of its own prompt (the
\* one before the stripped end token, never padding); every decode step
\* feeds the model the token buffered last (the seed at the first step, then
\* the token of the step before) and the cache the step before returned:
\* the cache it returns differs from that one only where the step writes.
C22_StepFeedsLastTokenAndCache ==
    [][/\ pc = "start" /\ pc' = "loop" =>
           \A b \in BatchRows :
               LET ids == tokenize(decoder_sequence[b])
               IN  /\ tokens'[1][b] = ids[Len(ids) - 1]
                   /\ tokens'[1][b] # PAD_TOKEN_ID
       /\ pc = "loop" /\ pc' = "loop" =>
           \A b \in BatchRows :
               /\ logits'[b][1].tok = tokens[Len(tokens)][b]
               /\ \A l \in 0..NumLayers - 1 : \A kv \in 0..1 :
                      \A j \in 0..sequence_length - 1 :
                          j # self_attention_cache_update_index[b] =>
                              self_attention_cache'[b][l][kv][j] =
                                  self_attention_cache[b][l][kv][j]]_vars

\* C22 witness: two decode steps after priming rows of different prompt
\* lengths; the second step was fed what the first emitted.
C22_Witness ==
    /\ pc = "loop"
    /\ NumSteps >= 2
    /\ Len(decoder_input[1]) < Len(decoder_input[2])
    /\ tokens[1][1] = bos_token_id
    /\ tokens[1][2] = FirstLearnedId
    /\ \A b \in BatchRows : logits[b][1].tok = tokens[NumSteps][b]

\* C12: a decoder or encoder sequence whose element type is not string,
\* tensor or not, makes Sampler.sample raise at its entry: the call gets no
\* further than the dtype test of sample.
C12_NonStringRejectedAtEntry ==
    (\/ decoder_sequence_type.dtype # "string"
     \/ /\ encoder_sequence.kind # "none"
        /\ encoder_sequence.val.dtype # "string") =>
        /\ pc \in {"start", "error"}
        /\ pc = "error" => raised = "sample"

(* ------------------- _cache_update as a function ---------------------- *)
\* Inputs: a cache of one layer's keys (each position zero or filled), one
\* write position per row (MaxSequenceLength: outside the cache) and one
\* update vector per row.
Entry(tok) == Proj(0, Hidden(tok, <<>>))

SamplerUnset ==
    /\ decoder_sequence = Unset
    /\ decoder_sequence_type = Unset
    /\ encoder_sequence = Unset
    /\ raised = Unset
    /\ sequence_length = Unset
    /\ embedding_dim = Unset
    /\ decoder_input = Unset
    /\ tokens = Unset
    /\ self_attention_cache = Unset
    /\ self_attention_cache_update_index = Unset
    /\ logits = Unset
    /\ write_log = Unset
    /\ decoder_output = Unset
    /\ result = Unset

Returns(value) ==
    /\ pc' = "returned"
    /\ fn_out' = value
    /\ UNCHANGED <<decoder_sequence, decoder_sequence_type, encoder_sequence,
                   raised, sequence_length, embedding_dim,
                   decoder_input, tokens, self_attention_cache,
                   self_attention_cache_update_index, logits, write_log,
                   decoder_output, result, fn_in>>

CacheUpdateInputs ==
    [cache : [BatchRows -> [0..MaxSequenceLength - 1 ->
                               {Zero, Entry(FirstLearnedId)}]],
     index : [BatchRows -> 0..MaxSequenceLength],
     update : [BatchRows -> {Entry(bos_token_id), Entry(eos_token_id)}]]

CacheUpdateIndex == DenseIndex([b \in BatchRows |-> <<fn_in.index[b]>>])

InitCacheUpdate ==
    /\ pc = "call"
    /\ fn_in \in CacheUpdateInputs
    /\ fn_out = Unset
    /\ SamplerUnset

CacheUpdateCall ==
    /\ pc = "call"
    /\ Returns(_cache_update(fn_in.cache, CacheUpdateIndex,
                             [b \in BatchRows |-> <<fn_in.update[b]>>]))

CacheUpdateFails ==
    /\ pc = "call"
    /\ _cache_update_oob(MaxSequenceLength, CacheUpdateIndex)
    /\ Fail("scatter")

NextCacheUpdate == CacheUpdateCall \/ CacheUpdateFails

SpecCacheUpdate == InitCacheUpdate /\ [][NextCacheUpdate]_vars

\* C7: _cache_update(C, i, u) differs from C only at position i[b] of each
\* row b; every other row and position is as in C.
C7_CacheUpdateLocal ==
    pc = "returned" =>
        /\ DOMAIN fn_out = DOMAIN fn_in.cache
        /\ \A b \in BatchRows :
              /\ DOMAIN fn_out[b] = DOMAIN fn_in.cache[b]
              /\ \A j \in DOMAIN fn_in.cache[b] :
                    j # fn_in.index[b] => fn_out[b][j] = fn_in.cache[b][j]

\* C7 witness: the rows write at different positions, and each row's
\* position now holds its update.
C7_Witness ==
    /\ pc = "returned"
    /\ fn_in.index[1] # fn_in.index[2]
    /\ \A b \in BatchRows :
          /\ fn_in.index[b] < MaxSequenceLength
          /\ fn_out[b][fn_in.index[b]] = fn_in.update[b]
          /\ fn_in.cache[b][fn_in.index[b]] # fn_in.update[b]

(* -------------- the self-attention mask as a function ----------------- *)
\* One decoder layer is called in each of the three ways the code calls
\* it: "step" (one token per row, a filled cache, one write position per
\* row), "prime" (a padded prompt, a ragged index 0..length-1 per row) and
\* "full" (no cache, no index, MaxSequenceLength tokens).  index[b] is the
\* write position, the prompt length, or the position p of the "full" row
\* after which content is replaced.  Each call is made a second time on
\* inputs whose content at positions named in corrupt and greater than the
\* row's last position is replaced by something else.
Garbage == Entry(OOV_TOKEN_ID)

MaskPositions == 0..MaxSequenceLength - 1

MaskInputs ==
    [shape : {"step"},
     cache : [BatchRows -> [MaskPositions -> {Zero, Entry(FirstLearnedId)}]],
     index : [BatchRows -> MaskPositions],
     corrupt : SUBSET MaskPositions]
    \cup
    [shape : {"prime", "full"},
     cache : {[b \in BatchRows |-> [j \in MaskPositions |-> Zero]]},
     index : [BatchRows -> 1..MaxSequenceLength],
     corrupt : SUBSET MaskPositions]

\* the last absolute position row b holds after the call
MaskHorizon(in, b) == IF in.shape = "step" THEN in.index[b] ELSE in.index[b] - 1

MaskReplaced(in, b, j) == j \in in.corrupt /\ j > MaskHorizon(in, b)

MaskIndex(in) ==
    IF in.shape = "step"
    THEN DenseIndex([b \in BatchRows |-> <<in.index[b]>>])
    ELSE IF in.shape = "prime"
    THEN RaggedIndex([b \in BatchRows |-> ragged_range(in.index[b])])
    ELSE Absent

MaskCache(in, replaced) ==
    IF in.shape = "full" THEN Absent
    ELSE Given([b \in BatchRows |-> [kv \in 0..1 |-> [j \in MaskPositions |->
             IF replaced /\ MaskReplaced(in, b, j) THEN Garbage
             ELSE in.cache[b][j]]]])

MaskSequence(in, replaced) ==
    IF in.shape = "step"
    THEN [b \in BatchRows |->
             <<Hidden(FirstLearnedId, <<in.index[b]>>)>>]
    ELSE IF in.shape = "prime"
    THEN [b \in BatchRows |->
             [t \in 1..Max({in.index[r] : r \in BatchRows}) |->
                 Hidden(IF t <= in.index[b] THEN FirstLearnedId
                        ELSE PAD_TOKEN_ID, <<t - 1>>)]]
    ELSE [b \in BatchRows |-> [t \in 1..MaxSequenceLength |->
             Hidden(IF replaced /\ MaskReplaced(in, b, t - 1)
                    THEN OOV_TOKEN_ID ELSE FirstLearnedId, <<t - 1>>)]]

MaskLayerCall(in, replaced) ==
    TransformerDecoderLayer_call(MaskSequence(in, replaced), Absent,
        MaskCache(in, replaced), MaskIndex(in), Absent, Absent, TRUE, FALSE)

InitMask ==
    /\ pc = "call"
    /\ fn_in \in MaskInputs
    /\ fn_out = Unset
    /\ SamplerUnset

MaskCall ==
    /\ pc = "call"
    /\ Returns([mask |-> _compute_self_attention_mask(
                             MaskSequence(fn_in, FALSE), Absent, Absent, TRUE,
                             MaskCache(fn_in, FALSE), MaskIndex(fn_in)).val,
                out |-> MaskLayerCall(fn_in, FALSE)[1],
                out_replaced |-> MaskLayerCall(fn_in, TRUE)[1]])

NextMask == MaskCall

SpecMask == InitMask /\ [][NextMask]_vars

\* the absolute position of query slot t of row b (-1: a padding slot)
QueryPosition(in, b, t) ==
    IF in.shape = "step" THEN in.index[b]
    ELSE IF in.shape = "prime"
    THEN (IF t <= in.index[b] THEN t - 1 ELSE -1)
    ELSE t - 1

\* C8: a query at absolute position i attends key position j only if
\* j <= i, and what a row computes at positions up to its last position p
\* does not depend on content at positions greater than p.
C8_CausalMask ==
    pc = "returned" =>
        \A b \in BatchRows : \A t \in DOMAIN fn_out.mask[b] :
            /\ \A j \in fn_out.mask[b][t] : j <= QueryPosition(fn_in, b, t)
            /\ QueryPosition(fn_in, b, t) \in 0..MaskHorizon(fn_in, b)
                  => fn_out.out[b][t] = fn_out.out_replaced[b][t]

\* C8 witness: a step at position p >= 1 of a cache whose position p + 1
\* is filled and replaced attends exactly 0..p.
C8_Witness ==
    /\ pc = "returned"
    /\ fn_in.shape = "step"
    /\ \E b \in BatchRows :
          /\ fn_in.index[b] >= 1
          /\ fn_in.index[b] + 1 \in fn_in.corrupt \cap MaskPositions
          /\ fn_in.cache[b][fn_in.index[b] + 1] # Zero
          /\ fn_out.mask[b][1] = 0..fn_in.index[b]

(* ------------- priming against stepping, TransformerDecoder ----------- *)
\* A batch of prompts of one length L is run through TransformerDecoder
\* once, with a fresh cache and the positions 0..L-1 of every row, and one
\* token at a time, with a cache that starts fresh and the position
\* p = 0, 1, .. L-1.  fn_out records what each way returned.
PrimingInputs ==
    [prompt : UNION {[BatchRows -> {<<bos_token_id>> \o body :
                        body \in {q \in SeqsUpTo(PromptTokenIds, MaxPromptLen) :
                                     Len(q) = k}}] : k \in 0..MaxPromptLen},
     F : EmbeddingDims,
     S : {n \in SequenceLengths : n >= MaxPromptLen + 1}]

PrimingLength == Len(fn_in.prompt[1])

PrimingFullIndex ==
    RaggedIndex([b \in BatchRows |-> ragged_range(PrimingLength)])

PrimingStepIndex == DenseIndex([b \in BatchRows |-> <<Len(fn_out.steps)>>])

InitPriming ==
    /\ pc = "call"
    /\ fn_in \in PrimingInputs
    /\ fn_out = [full_done |-> FALSE, full_raised |-> FALSE,
                 full_logits |-> Unset, full_cache |-> Unset, steps |-> <<>>,
                 cache |-> initialize_attention_cache(BatchRows, fn_in.S)]
    /\ SamplerUnset

PrimingUpdate(value) ==
    /\ fn_out' = value
    /\ pc' = IF value.full_done /\ Len(value.steps) = PrimingLength
             THEN "returned" ELSE "call"
    /\ UNCHANGED <<decoder_sequence, decoder_sequence_type, encoder_sequence,
                   raised, sequence_length, embedding_dim,
                   decoder_input, tokens, self_attention_cache,
                   self_attention_cache_update_index, logits, write_log,
                   decoder_output, result, fn_in>>

FullPassReturn(out) ==
    PrimingUpdate([fn_out EXCEPT !.full_done = TRUE, !.full_logits = out[1],
                                 !.full_cache = out[2].val])

FullPass ==
    /\ pc = "call"
    /\ ~ fn_out.full_done
    /\ ~ TransformerDecoder_raises(fn_in.prompt,
           Given(initialize_attention_cache(BatchRows, fn_in.S)),
           PrimingFullIndex, Absent, Absent, Absent, fn_in.F, fn_in.S)
    /\ FullPassReturn(TransformerDecoder_call(fn_in.prompt,
           Given(initialize_attention_cache(BatchRows, fn_in.S)),
           PrimingFullIndex, Absent, Absent, Absent, fn_in.F, fn_in.S))

FullPassRaises ==
    /\ pc = "call"
    /\ ~ fn_out.full_done
    /\ TransformerDecoder_raises(fn_in.prompt,
           Given(initialize_attention_cache(BatchRows, fn_in.S)),
           PrimingFullIndex, Absent, Absent, Absent, fn_in.F, fn_in.S)
    /\ PrimingUpdate([fn_out EXCEPT !.full_done = TRUE, !.full_raised = TRUE])

StepPassReturn(out) ==
    PrimingUpdate([fn_out EXCEPT !.steps = Append(@, out[1]),
                                 !.cache = out[2].val])

StepPass ==
    /\ pc = "call"
    /\ Len(fn_out.steps) < PrimingLength
    /\ StepPassReturn(TransformerDecoder_call(
           [b \in BatchRows |-> <<fn_in.prompt[b][Len(fn_out.steps) + 1]>>],
           Given(fn_out.cache), PrimingStepIndex, Absent, Absent, Absent,
           fn_in.F, fn_in.S))

NextPriming == FullPass \/ FullPassRaises \/ StepPass

SpecPriming == InitPriming /\ [][NextPriming]_vars

\* C10: the pass over the full prompt returns, and for every position
\* p < L what it computed at p (the vector with its positional index and
\* the keys and values it attended) is what the step at p computed, and
\* both ways leave the same cache.
C10_PrimingEqualsStepping ==
    pc = "returned" =>
        /\ ~ fn_out.full_raised
        /\ fn_out.full_cache = fn_out.cache
        /\ \A b \in BatchRows : \A p \in 0..PrimingLength - 1 :
              fn_out.full_logits[b][p + 1] = fn_out.steps[p + 1][b][1]

\* C24: with a cache update index, the positional embedding added to a
\* token is the whole table row of the token's absolute position listed by
\* the index: in the pass over the full prompt (which returns) and in every
\* single-token step.
C24_PositionByIndex ==
    /\ \A k \in 1..Len(fn_out.steps) : \A b \in BatchRows :
          fn_out.steps[k][b][1].pe = [f \in 1..fn_in.F |-> k - 1]
    /\ fn_out.full_done =>
          /\ ~ fn_out.full_raised
          /\ \A b \in BatchRows : \A t \in 1..PrimingLength :
                fn_out.full_logits[b][t].pe =
                    [f \in 1..fn_in.F |-> PrimingFullIndex.val[b][t]]

(* ------------------ SMILESTokenizer.detokenize alone ------------------ *)
\* Any row of ids: reserved ones, learned ones, in any order.
DetokenizeIds ==
    {PAD_TOKEN_ID, OOV_TOKEN_ID, bos_token_id, eos_token_id,
     FirstLearnedId, FirstLearnedId + 1}

InitDetokenize ==
    /\ pc = "call"
    /\ fn_in \in SeqsUpTo(DetokenizeIds, MaxIdsLen)
    /\ fn_out = Unset
    /\ SamplerUnset

DetokenizeCall ==
    /\ pc = "call"
    /\ Returns(detokenize(fn_in))

NextDetokenize == DetokenizeCall

SpecDetokenize == InitDetokenize /\ [][NextDetokenize]_vars

\* index of the first end token of a row, Len + 1 if it has none
FirstEnd(ids) ==
    IF \E k \in 1..Len(ids) : ids[k] = eos_token_id
    THEN CHOOSE k \in 1..Len(ids) :
             /\ ids[k] = eos_token_id
             /\ \A m \in 1..k - 1 : ids[m] # eos_token_id
    ELSE Len(ids) + 1

IsKept(id) == id \notin {PAD_TOKEN_ID, bos_token_id}

\* C11: the string detokenize returns for a row is the row's tokens before
\* its first end token, pad and bos markers left out, in order; the first
\* end token and everything after it are gone.
C11_DetokenizeCutsAtFirstEnd ==
    pc = "returned" /\ fn_in \in Seq(DetokenizeIds) =>
        fn_out = SelectSeq(SubSeq(fn_in, 1, FirstEnd(fn_in) - 1), IsKept)

\* C11 witness: a row with a kept token before the first end token and
\* tokens, a second end token among them, after it.
C11_Witness ==
    /\ pc = "returned"
    /\ fn_in \in Seq(DetokenizeIds)
    /\ Len(fn_in) = MaxIdsLen
    /\ FirstEnd(fn_in) = 2
    /\ fn_in[3] = FirstLearnedId
    /\ fn_in[4] = eos_token_id
    /\ fn_out = <<FirstLearnedId + 1>>

(* ------------------- Tokenizer and SMILESTokenizer -------------------- *)
\* A token is its text; a string is the sequence of the tokens the SMILES
\* pattern splits it into (the pattern keeps every piece, so joining the
\* pieces gives the string back).
PAD_TOKEN == "[pad]"
OOV_TOKEN == "[oov]"
BOS_TOKEN == "[bos]"
EOS_TOKEN == "[eos]"

\* Python's None, where a str and where an int is expected
None == "None"
NoneInt == -1

\* `if x:` for a str or None, and for an int or None
Truthy(x) == x \notin {None, ""}
TruthyInt(n) == n \notin {NoneInt, 0}

\* byte order of the token texts used (np.lexsort on the encoded tokens)
TokenRank ==
    [t \in {"C", "N", BOS_TOKEN, EOS_TOKEN, OOV_TOKEN, PAD_TOKEN} |->
        CASE t = "C" -> 1 [] t = "N" -> 2 [] t = BOS_TOKEN -> 3
          [] t = EOS_TOKEN -> 4 [] t = OOV_TOKEN -> 5 [] t = PAD_TOKEN -> 6]

Range(q) == {q[i] : i \in 1..Len(q)}

\* Tokenizer.__init__, lines 53-59
special_tokens(add_bos, add_eos, oov_token) ==
    <<PAD_TOKEN>> \o (IF Truthy(oov_token) THEN <<oov_token>> ELSE <<>>)
                  \o (IF add_bos THEN <<BOS_TOKEN>> ELSE <<>>)
                  \o (IF add_eos THEN <<EOS_TOKEN>> ELSE <<>>)

\* Tokenizer.__init__, lines 61-72: the tables insert(vocabulary,
\* arange(len, 0, -1)) may leave; a token listed twice keeps one of its
\* two counts
VocabularyTables(vocabulary) ==
    {table \in [Range(vocabulary) -> 1..Len(vocabulary)] :
        \A t \in Range(vocabulary) : \E i \in 1..Len(vocabulary) :
            vocabulary[i] = t /\ table[t] = Len(vocabulary) + 1 - i}

\* Tokenizer.adapt, lines 143-163: the counts of the tokens of the data
RECURSIVE Occurrences(_, _)
Occurrences(q, t) ==
    IF q = <<>> THEN 0
    ELSE (IF Head(q) = t THEN 1 ELSE 0) + Occurrences(Tail(q), t)

RECURSIVE Flatten(_)
Flatten(data) == IF data = <<>> THEN <<>> ELSE Head(data) \o Flatten(Tail(data))

AdaptTable(data) ==
    [t \in Range(Flatten(data)) |-> Occurrences(Flatten(data), t)]

\* np.lexsort((vocab, counts))[::-1]: by count, then by token, descending
RECURSIVE SortDescending(_, _)
SortDescending(T, table) ==
    IF T = {} THEN <<>>
    ELSE LET top == CHOOSE x \in T : \A y \in T \ {x} :
                        \/ table[x] > table[y]
                        \/ table[x] = table[y] /\ TokenRank[x] > TokenRank[y]
         IN  <<top>> \o SortDescending(T \ {top}, table)

\* _create_vocab without the removal of the special tokens from the table
_create_vocab_keeps_special(special, adapted_table) ==
    special \o SortDescending(DOMAIN adapted_table, adapted_table)

\* Tokenizer._create_vocab: the special tokens are removed from the table,
\* the rest is sorted and put after the special tokens
_create_vocab(special, adapted_table) ==
    special \o SortDescending(DOMAIN adapted_table \ Range(special),
                              adapted_table)

\* Tokenizer._create_lookup_tables raises: the reverse table gets
\* oov_token as its default value, and None is no string
_create_lookup_tables_raises(oov_token) == oov_token = None

\* Tokenizer.token_to_id / id_to_token: the lookup tables of a vocabulary
token_to_id(tk, token) ==
    IF \E i \in 1..Len(tk.vocabulary) : tk.vocabulary[i] = token
    THEN (CHOOSE i \in 1..Len(tk.vocabulary) : tk.vocabulary[i] = token) - 1
    ELSE tk.oov_token_id

id_to_token(tk, id) ==
    IF id \in 0..Len(tk.vocabulary) - 1 THEN tk.vocabulary[id + 1]
    ELSE tk.oov_token

Reverse(q) == [i \in 1..Len(q) |-> q[Len(q) + 1 - i]]

\* RaggedTensor.to_tensor(shape=(None, n), default_value): cut or padded
ToLength(q, n, default_value) ==
    [i \in 1..n |-> IF i <= Len(q) THEN q[i] ELSE default_value]

\* Tokenizer.tokenize(inputs, ragged) for one string
Tokenizer_tokenize(tk, inputs, ragged) ==
    LET joined == (IF tk.bos_token # None THEN <<tk.bos_token>> ELSE <<>>)
                  \o inputs
                  \o (IF tk.eos_token # None THEN <<tk.eos_token>> ELSE <<>>)
        token_ids == [i \in 1..Len(joined) |-> token_to_id(tk, joined[i])]
    IN  IF ~ TruthyInt(tk.sequence_length) \/ ragged THEN token_ids
        ELSE IF tk.padding_mode = "left"
        THEN Reverse(ToLength(Reverse(token_ids), tk.sequence_length,
                              tk.pad_token_id))
        ELSE ToLength(token_ids, tk.sequence_length, tk.pad_token_id)

\* REGEX_PATTERN_CLEANUP on the joined token texts
RECURSIVE Cleanup(_)
Cleanup(texts) ==
    IF texts = <<>> THEN <<>>
    ELSE IF Head(texts) = EOS_TOKEN THEN <<>>
    ELSE IF Head(texts) \in {PAD_TOKEN, BOS_TOKEN} THEN Cleanup(Tail(texts))
    ELSE <<Head(texts)>> \o Cleanup(Tail(texts))

\* SMILESTokenizer.detokenize for one row of ids
SMILESTokenizer_detokenize(tk, inputs) ==
    Cleanup([i \in 1..Len(inputs) |-> id_to_token(tk, inputs[i])])

\* --- constructing a tokenizer, adapting it, a sampler on it, a round trip
TokenizerArgs ==
    [vocabulary : SeqsUpTo({"C", "N", PAD_TOKEN}, MaxVocabLen),
     sequence_length : {NoneInt, MaxStringLen + 1},
     add_bos : BOOLEAN,
     add_eos : BOOLEAN,
     oov_token : {OOV_TOKEN, None},
     padding_mode : {"right", "left"}]

\* the strings of a data set, and the data sets adapt is called on
Strings(alphabet) == SeqsUpTo(alphabet, MaxStringLen) \ {<<>>}
DataSets ==
    LET strings == Strings({"C", "N", PAD_TOKEN})
    IN  {<<a>> : a \in strings} \cup {<<a, b>> : a \in strings, b \in strings}

\* Tokenizer.__init__, lines 38-59 and 61-74
Tokenizer_init(args, adapted_table) ==
    [sequence_length |-> args.sequence_length,
     padding_mode |-> IF args.padding_mode = "left" THEN "left" ELSE "right",
     pad_token |-> PAD_TOKEN,
     bos_token |-> IF args.add_bos THEN BOS_TOKEN ELSE None,
     eos_token |-> IF args.add_eos THEN EOS_TOKEN ELSE None,
     oov_token |-> args.oov_token,
     pad_token_id |-> PAD_TOKEN_ID,
     oov_token_id |-> OOV_TOKEN_ID,
     bos_token_id |-> IF args.add_bos THEN bos_token_id ELSE NoneInt,
     eos_token_id |-> eos_token_id - (IF ~ args.add_bos THEN 1 ELSE 0),
     special_tokens |->
         special_tokens(args.add_bos, args.add_eos, args.oov_token),
     vocabulary |->
         IF args.vocabulary # <<>>
         THEN _create_vocab(
                  special_tokens(args.add_bos, args.add_eos, args.oov_token),
                  adapted_table)
         ELSE <<>>,
     built |-> args.vocabulary # <<>>]

NoTokenizer == [vocabulary |-> <<>>, built |-> FALSE]

InitTokenizer ==
    /\ pc = "call"
    /\ fn_in \in TokenizerArgs
    /\ fn_out = [tokenizer |-> NoTokenizer, adapted |-> FALSE,
                 inputs |-> <<>>, token_ids |-> <<>>, outputs |-> <<>>]
    /\ SamplerUnset

TokenizerUpdate(next_pc, where, value) ==
    /\ pc' = next_pc
    /\ raised' = where
    /\ fn_out' = value
    /\ UNCHANGED <<decoder_sequence, decoder_sequence_type, encoder_sequence,
                   sequence_length, embedding_dim, decoder_input, tokens,
                   self_attention_cache, self_attention_cache_update_index,
                   logits, write_log, decoder_output, result, fn_in>>

\* Tokenizer.__init__ returns
TokenizerInit ==
    /\ pc = "call"
    /\ fn_in.add_eos
    /\ fn_in.vocabulary = <<>> \/ ~ _create_lookup_tables_raises(fn_in.oov_token)
    /\ \E adapted_table \in VocabularyTables(fn_in.vocabulary) :
          TokenizerUpdate("tokenizer", raised,
              [fn_out EXCEPT !.tokenizer = Tokenizer_init(fn_in, adapted_table)])

\* Tokenizer.__init__ raises: line 52 subtracts from eos_token_id, which is
\* None without an end token (TypeError); or the lookup tables of the
\* supplied vocabulary cannot be built
TokenizerInitRaises ==
    /\ pc = "call"
    /\ IF ~ fn_in.add_eos
       THEN TokenizerUpdate("error", "Tokenizer.__init__", fn_out)
       ELSE /\ fn_in.vocabulary # <<>>
            /\ _create_lookup_tables_raises(fn_in.oov_token)
            /\ TokenizerUpdate("error", "_create_lookup_tables", fn_out)

\* Tokenizer.adapt(data) on a list of strings: sequence_length is set, the
\* vocabulary rebuilt, and then the lookup tables are built or raise
AdaptReturn(tk) ==
    IF _create_lookup_tables_raises(tk.oov_token)
    THEN TokenizerUpdate("error", "_create_lookup_tables",
             [fn_out EXCEPT !.tokenizer = tk, !.adapted = TRUE])
    ELSE TokenizerUpdate("tokenizer", raised,
             [fn_out EXCEPT !.tokenizer = [tk EXCEPT !.built = TRUE],
                            !.adapted = TRUE])

Adapt ==
    /\ pc = "tokenizer"
    /\ ~ fn_out.adapted
    /\ \E data \in DataSets :
          AdaptReturn([fn_out.tokenizer EXCEPT
              !.sequence_length = Max({Len(data[i]) : i \in 1..Len(data)}),
              !.vocabulary = _create_vocab(fn_out.tokenizer.special_tokens,
                                           AdaptTable(data))])

\* Sampler.__init__, lines 19-31
SamplerInit ==
    /\ pc = "tokenizer"
    /\ fn_out.tokenizer.bos_token # None
    /\ fn_out.tokenizer.eos_token # None
    /\ TokenizerUpdate("sampler", raised, fn_out)

\* Sampler.__init__ raises its ValueError
SamplerInitRaises ==
    /\ pc = "tokenizer"
    /\ ~ (fn_out.tokenizer.bos_token # None /\ fn_out.tokenizer.eos_token # None)
    /\ TokenizerUpdate("error", "Sampler.__init__", fn_out)

\* tokenize, then detokenize, a string of learned tokens of the vocabulary
RoundTripReturn(inputs, token_ids) ==
    TokenizerUpdate("returned", raised,
        [fn_out EXCEPT !.inputs = inputs, !.token_ids = token_ids,
            !.outputs = SMILESTokenizer_detokenize(fn_out.tokenizer, token_ids)])

RoundTrip ==
    /\ pc = "tokenizer"
    /\ fn_out.tokenizer.built
    /\ \E inputs \in Strings(Range(fn_out.tokenizer.vocabulary)
                                \ Range(fn_out.tokenizer.special_tokens)) :
          RoundTripReturn(inputs,
              Tokenizer_tokenize(fn_out.tokenizer, inputs, FALSE))

NextTokenizer ==
    \/ TokenizerInit \/ TokenizerInitRaises \/ Adapt
    \/ SamplerInit \/ SamplerInitRaises \/ RoundTrip

SpecTokenizer == InitTokenizer /\ [][NextTokenizer]_vars

\* C13: for a tokenizer configured without a begin token or without an end
\* token, constructing a Sampler on it fails, and the failure is the
\* ValueError of Sampler.__init__.
C13_SamplerNeedsBosAndEos ==
    fn_in \in TokenizerArgs /\ ~ (fn_in.add_bos /\ fn_in.add_eos) =>
        /\ pc # "sampler"
        /\ pc = "error" => raised = "Sampler.__init__"

\* C16: in a built vocabulary id 0 is the pad token, the special tokens
\* hold the ids 0..k-1 in their order, every later id holds a token that
\* is no special token, and no token has two ids.
C16_ReservedIdsFirst ==
    pc \in {"tokenizer", "sampler", "returned", "error"} =>
        LET tk == fn_out.tokenizer
        IN  tk.vocabulary # <<>> =>
              /\ tk.vocabulary[1] = PAD_TOKEN
              /\ Len(tk.vocabulary) >= Len(tk.special_tokens)
              /\ \A i \in 1..Len(tk.special_tokens) :
                    tk.vocabulary[i] = tk.special_tokens[i]
              /\ \A i \in Len(tk.special_tokens) + 1..Len(tk.vocabulary) :
                    tk.vocabulary[i] \notin Range(tk.special_tokens)
              /\ \A i, j \in 1..Len(tk.vocabulary) :
                    tk.vocabulary[i] = tk.vocabulary[j] => i = j

\* C16 witness: a vocabulary built from a supplied list that names the pad
\* token between two other tokens.
C16_Witness ==
    /\ pc = "tokenizer"
    /\ ~ fn_out.adapted
    /\ fn_in.vocabulary = <<"N", PAD_TOKEN, "C">>
    /\ fn_in.add_bos
    /\ fn_out.tokenizer.vocabulary =
           <<PAD_TOKEN, OOV_TOKEN, BOS_TOKEN, EOS_TOKEN, "N", "C">>

\* an advertised id is None when its token is not configured, and else the
\* index of the token in the built vocabulary
ReservedIdOk(tk, token, id) ==
    IF token = None THEN id = NoneInt
    ELSE /\ id \in 0..Len(tk.vocabulary) - 1
         /\ tk.vocabulary[id + 1] = token

\* C27: for every configuration the construction succeeds, and once a
\* vocabulary is built each advertised reserved id is None when its token
\* is not configured and else the index of that token in the vocabulary.
C27_ReservedIdsMatchVocabulary ==
    fn_in \in TokenizerArgs =>
        /\ ~ (pc = "error" /\
              raised \in {"Tokenizer.__init__", "_create_lookup_tables"})
        /\ pc \in {"tokenizer", "sampler", "returned", "error"} =>
              LET tk == fn_out.tokenizer
              IN  tk.vocabulary # <<>> =>
                    /\ ReservedIdOk(tk, tk.pad_token, tk.pad_token_id)
                    /\ ReservedIdOk(tk, tk.oov_token, tk.oov_token_id)
                    /\ ReservedIdOk(tk, tk.bos_token, tk.bos_token_id)
                    /\ ReservedIdOk(tk, tk.eos_token, tk.eos_token_id)

\* C17: for a string of learned tokens of the vocabulary, detokenize of
\* tokenize gives the string back, whatever sequence_length and
\* padding_mode the tokenizer has.
C17_RoundTrip ==
    pc = "returned" /\ fn_in \in TokenizerArgs =>
        fn_out.outputs = fn_out.inputs

(* --------- TransformerDecoderLayer.call: what it returns -------------- *)
\* One token per row; a self-attention cache, a cross-attention cache and
\* their update indices are each passed or not, and the layer was built
\* with or without a cross-attention sublayer (then an encoder sequence of
\* two vectors per row is passed).
LayerCacheSlice(content) ==
    [b \in BatchRows |-> [kv \in 0..1 |-> content[b]]]

LayerCaches ==
    {Absent} \cup
    {Given(LayerCacheSlice(content)) :
        content \in [BatchRows -> [MaskPositions -> {Zero, Entry(FirstLearnedId)}]]}

LayerIndices ==
    {Absent} \cup
    {DenseIndex([b \in BatchRows |-> <<p>>]) : p \in MaskPositions}

LayerInputs ==
    [scache : LayerCaches,
     sindex : LayerIndices,
     ccache : {Absent, Given(LayerCacheSlice(
                  [b \in BatchRows |-> [j \in MaskPositions |-> Zero]]))},
     cindex : {Absent, DenseIndex([b \in BatchRows |-> <<0>>])},
     has_cross : BOOLEAN]

LayerSequence == [b \in BatchRows |-> <<Hidden(FirstLearnedId, <<0>>)>>]

LayerEncoderSequence ==
    [b \in BatchRows |-> <<Hidden(OOV_TOKEN_ID, <<0>>), Hidden(OOV_TOKEN_ID, <<1>>)>>]

InitLayer ==
    /\ pc = "call"
    /\ fn_in \in LayerInputs
    /\ fn_out = Unset
    /\ SamplerUnset

LayerCall ==
    /\ pc = "call"
    /\ Returns(TransformerDecoderLayer_call(LayerSequence,
           IF fn_in.has_cross THEN Given(LayerEncoderSequence) ELSE Absent,
           fn_in.scache, fn_in.sindex, fn_in.ccache, fn_in.cindex,
           TRUE, fn_in.has_cross))

NextLayer == LayerCall

SpecLayer == InitLayer /\ [][NextLayer]_vars

\* C14: the layer returns the sequence alone when no cache is passed, and
\* otherwise the sequence followed by exactly the caches passed: as many
\* values as one plus the caches passed, each value after the first a cache.
C14_ReturnsCachesPassed ==
    pc = "returned" /\ fn_in \in LayerInputs =>
        /\ Len(fn_out) = 1 + (IF fn_in.scache.kind # "none" THEN 1 ELSE 0)
                           + (IF fn_in.ccache.kind # "none" THEN 1 ELSE 0)
        /\ \A k \in 2..Len(fn_out) : fn_out[k].kind # "none"

(* --------- KeyValueCachedMultiHeadAttention.call ----------------------- *)
\* One query vector and one new key/value vector per row; a cache whose
\* key and value halves are filled independently, an update index and an
\* attention mask are each passed or not.
AttentionCaches ==
    {Absent} \cup
    {Given([b \in BatchRows |-> [kv \in 0..1 |-> [j \in MaskPositions |->
         IF j \in filled[kv]
         THEN Proj(kv, Hidden(FirstLearnedId, <<j>>)) ELSE Zero]]]) :
        filled \in [0..1 -> SUBSET MaskPositions]}

AttentionMasks ==
    {Absent} \cup
    {Given([b \in BatchRows |-> <<allowed>>]) : allowed \in SUBSET MaskPositions}

AttentionInputs ==
    [cache : AttentionCaches, index : LayerIndices, attention_mask : AttentionMasks]

AttentionQuery == [b \in BatchRows |-> <<Hidden(FirstLearnedId, <<0>>)>>]

AttentionValue == [b \in BatchRows |-> <<Hidden(OOV_TOKEN_ID, <<0>>)>>]

InitAttention ==
    /\ pc = "call"
    /\ fn_in \in AttentionInputs
    /\ fn_out = Unset
    /\ SamplerUnset

AttentionCall ==
    /\ pc = "call"
    /\ Returns(KeyValueCachedMultiHeadAttention_call(AttentionQuery,
           AttentionValue, fn_in.attention_mask, fn_in.cache, fn_in.index))

NextAttention == AttentionCall

SpecAttention == InitAttention /\ [][NextAttention]_vars

\* the key positions a row's query may attend in a call
AttentionAllowed(b) ==
    IF fn_in.attention_mask.kind = "none" THEN MaskPositions
    ELSE fn_in.attention_mask.val[b][1]

\* C15: with a cache and no update index the call attends over the cached
\* keys and values as given and returns a cache identical to the one passed
\* in (nothing is written); without a cache it returns the output alone.
C15_CacheWithoutIndexUnchanged ==
    pc = "returned" /\ fn_in \in AttentionInputs =>
        /\ fn_in.cache.kind = "none" => Len(fn_out) = 1
        /\ fn_in.cache.kind # "none" /\ fn_in.index.kind = "none" =>
            /\ Len(fn_out) = 2
            /\ fn_out[2] = fn_in.cache
            /\ \A b \in BatchRows :
                fn_out[1][b][1] =
                    {<<j, fn_in.cache.val[b][0][j], fn_in.cache.val[b][1][j]>> :
                        j \in AttentionAllowed(b)}

C15_Witness ==
    /\ pc = "returned"
    /\ fn_in \in AttentionInputs
    /\ fn_in.cache.kind # "none"
    /\ fn_in.index.kind = "none"
    /\ fn_in.cache.val[1][0][0] # Zero
    /\ fn_in.cache.val[1][1][0] = Zero
    /\ Len(fn_out) = 2
    /\ fn_out[1][1][1] # {}

(* --------- TopKSampler.get_next_token ---------------------------------- *)
\* A row of logits is a function from token ids to values.
LogitIds == 0..2

TopKs == {1, 2}

\* a temperature > 0 as a fraction num / den: 1/2, 7/10, 1, 2
Temperatures == {<<1, 2>>, <<7, 10>>, <<1, 1>>, <<2, 1>>}

\* a variant of top_k that keeps any k ids of the row
top_k_any(row, k) ==
    {ind \in [1..k -> DOMAIN row] : \A p, q \in 1..k : p # q => ind[p] # ind[q]}

\* ops.top_k(logits, k, sorted=False) for one row: the ids of the k largest
\* values, equal values taken lower id first, in an order that is not
\* specified (every order is a possible result)
top_k(row, k) ==
    {ind \in [1..k -> DOMAIN row] :
        /\ \A p, q \in 1..k : p # q => ind[p] # ind[q]
        /\ \A p \in 1..k : \A j \in DOMAIN row :
               (\A q \in 1..k : ind[q] # j) =>
                   \/ row[ind[p]] > row[j]
                   \/ row[ind[p]] = row[j] /\ ind[p] < j}

\* logits / self.temperature, a fraction num / den per entry
Scale(values, temperature) ==
    [p \in DOMAIN values |->
        [num |-> values[p] * temperature[2], den |-> temperature[1]]]

\* tf.random.categorical(logits, num_samples=1) for one row: every class
\* with a finite logit has a positive probability; classes count from 0
categorical(scaled) == {p - 1 : p \in {q \in DOMAIN scaled : scaled[q].den > 0}}

\* a variant that returns the sampled local index, not mapped back to an id
take_along_axis_local(ind, sample) == sample

\* ops.take_along_axis(indices, sample, axis=-1) for one row
take_along_axis(ind, sample) == ind[sample + 1]

\* TopKSampler.get_next_token for one row: every id the call can return
TopKSampler_get_next_token(row, k, temperature) ==
    UNION {{take_along_axis(ind, sample) :
               sample \in categorical(
                   Scale([p \in 1..k |-> row[ind[p]]], temperature))} :
           ind \in top_k(row, k)}

TopKInputs ==
    [logits : [BatchRows -> [LogitIds -> 0..MaxLogit]],
     k : TopKs, temperature : Temperatures]

InitTopK ==
    /\ pc = "call"
    /\ fn_in \in TopKInputs
    /\ fn_out = Unset
    /\ SamplerUnset

TopKCall ==
    /\ pc = "call"
    /\ \E next_token \in [BatchRows -> LogitIds] :
        /\ \A b \in BatchRows : next_token[b] \in
               TopKSampler_get_next_token(fn_in.logits[b], fn_in.k, fn_in.temperature)
        /\ Returns([b \in BatchRows |-> <<next_token[b]>>])

NextTopK == TopKCall

SpecTopK == InitTopK /\ [][NextTopK]_vars

\* C18: with k = 1 the call returns, for every row and every temperature,
\* the id of the row's highest logit (the lowest such id when several are
\* equal), so the result is a function of the logits alone.
C18_TopOneIsArgmax ==
    pc = "returned" /\ fn_in \in TopKInputs /\ fn_in.k = 1 =>
        \A b \in BatchRows : \A j \in LogitIds :
            \/ fn_in.logits[b][fn_out[b][1]] > fn_in.logits[b][j]
            \/ /\ fn_in.logits[b][fn_out[b][1]] = fn_in.logits[b][j]
               /\ fn_out[b][1] <= j

C18_Witness ==
    /\ pc = "returned"
    /\ fn_in \in TopKInputs
    /\ fn_in.k = 1
    /\ fn_in.temperature = <<7, 10>>
    /\ fn_in.logits[1] = [j \in LogitIds |-> IF j = 1 THEN MaxLogit ELSE 0]
    /\ fn_in.logits[2] = [j \in LogitIds |-> IF j = 2 THEN 1 ELSE 0]
    /\ fn_out = [b \in BatchRows |-> <<b>>]

\* C26: for every row the call returns an id of the vocabulary that is one
\* of the row's k highest logits: fewer than k ids have a higher logit.
C26_TopKMember ==
    pc = "returned" /\ fn_in \in TopKInputs =>
        \A b \in BatchRows :
            /\ fn_out[b][1] \in LogitIds
            /\ Cardinality({j \in LogitIds :
                   fn_in.logits[b][j] > fn_in.logits[b][fn_out[b][1]]}) < fn_in.k

\* C26 witness: with k = 2 a row returns its second highest id, another
\* its highest.
C26_Witness ==
    /\ pc = "returned"
    /\ fn_in \in TopKInputs
    /\ fn_in.k = 2
    /\ fn_in.logits[1] = [j \in LogitIds |-> j]
    /\ fn_in.logits[2] = [j \in LogitIds |-> MaxLogit - j]
    /\ fn_out[1] = <<1>>
    /\ fn_out[2] = <<0>>

(* --------- _cache_update with a ragged index (priming) ----------------- *)
\* Row b lists the positions 0..len[b]-1; the update is the dense tensor of
\* the padded prompts, so its slots past len[b] are derived from padding.
RaggedUpdateInputs ==
    [cache : [BatchRows -> [0..MaxSequenceLength - 1 ->
                               {Zero, Entry(FirstLearnedId)}]],
     len : [BatchRows -> 1..MaxSequenceLength],
     tok : [BatchRows -> {bos_token_id, FirstLearnedId}]]

RaggedUpdateIndex ==
    RaggedIndex([b \in BatchRows |-> ragged_range(fn_in.len[b])])

RaggedUpdateValues ==
    [b \in BatchRows |-> [r \in 1..Max({fn_in.len[c] : c \in BatchRows}) |->
        Proj(0, Hidden(IF r <= fn_in.len[b] THEN fn_in.tok[b]
                       ELSE PAD_TOKEN_ID, <<r - 1>>))]]

InitRaggedUpdate ==
    /\ pc = "call"
    /\ fn_in \in RaggedUpdateInputs
    /\ fn_out = Unset
    /\ SamplerUnset

RaggedUpdateCall ==
    /\ pc = "call"
    /\ Returns(_cache_update(fn_in.cache, RaggedUpdateIndex, RaggedUpdateValues))

NextRaggedUpdate == RaggedUpdateCall

SpecRaggedUpdate == InitRaggedUpdate /\ [][NextRaggedUpdate]_vars

\* C23: with a ragged index listing 0..len[b]-1 for row b, the cache holds
\* update[b][r] at position index[b][r] for every listed r, keeps what it
\* held at the positions >= len[b], holds nothing derived from a padding
\* slot of the update, and no (row, position) is targeted twice.
C23_RaggedUpdate ==
    pc = "returned" /\ fn_in \in RaggedUpdateInputs =>
        /\ \A b \in BatchRows : \A j \in 0..MaxSequenceLength - 1 :
              /\ j < fn_in.len[b] => fn_out[b][j] = RaggedUpdateValues[b][j + 1]
              /\ j >= fn_in.len[b] => fn_out[b][j] = fn_in.cache[b][j]
              /\ fn_out[b][j].tok # PAD_TOKEN_ID
        /\ \A e1, e2 \in scatter_index(RaggedUpdateIndex) :
              e1[1] = e2[1] /\ e1[3] = e2[3] => e1 = e2

\* C23 witness: rows of different lengths, the shorter one keeping a
\* filled position past its length where the update holds a padding slot.
C23_Witness ==
    /\ pc = "returned"
    /\ fn_in \in RaggedUpdateInputs
    /\ fn_in.len[1] = 1
    /\ fn_in.len[2] = MaxSequenceLength
    /\ fn_in.cache[1][1] = Entry(FirstLearnedId)
    /\ fn_out[1][1] = Entry(FirstLearnedId)
    /\ fn_out[2][1] = RaggedUpdateValues[2][2]
    /\ Cardinality(scatter_index(RaggedUpdateIndex)) = 1 + MaxSequenceLength

(* --------- TransformerDecoder.call: the layers axis of the caches ------ *)
\* One token per row.  Every cache, index and the encoder output is passed
\* or not; the layers of a passed cache hold different contents, marked by
\* the layer number.
DecoderCacheFills == {{}, {0}, MaskPositions}

DecoderCaches ==
    {Absent} \cup
    {Given([b \in BatchRows |-> [l \in 0..NumLayers - 1 |-> [kv \in 0..1 |->
         [j \in MaskPositions |->
             IF j \in filled[l]
             THEN Proj(kv, Hidden(FirstLearnedId + l, <<j>>)) ELSE Zero]]]]) :
        filled \in [0..NumLayers - 1 -> DecoderCacheFills]}

DecoderInputs ==
    [scache : DecoderCaches,
     sindex : LayerIndices,
     enc : {Absent, Given(LayerEncoderSequence)},
     ccache : {Absent, Given(initialize_attention_cache(BatchRows, MaxSequenceLength))},
     cindex : {Absent, DenseIndex([b \in BatchRows |-> <<0>>])},
     F : EmbeddingDims]

DecoderSequence == [b \in BatchRows |-> <<FirstLearnedId>>]

InitDecoder ==
    /\ pc = "call"
    /\ fn_in \in DecoderInputs
    /\ fn_out = Unset
    /\ SamplerUnset

DecoderCall ==
    /\ pc = "call"
    /\ ~ TransformerDecoder_raises(DecoderSequence, fn_in.scache, fn_in.sindex,
           fn_in.enc, fn_in.ccache, fn_in.cindex, fn_in.F, MaxSequenceLength)
    /\ Returns(TransformerDecoder_call(DecoderSequence, fn_in.scache, fn_in.sindex,
           fn_in.enc, fn_in.ccache, fn_in.cindex, fn_in.F, MaxSequenceLength))

DecoderRaises ==
    /\ pc = "call"
    /\ TransformerDecoder_raises(DecoderSequence, fn_in.scache, fn_in.sindex,
           fn_in.enc, fn_in.ccache, fn_in.cindex, fn_in.F, MaxSequenceLength)
    /\ Fail("model")

NextDecoder == DecoderCall \/ DecoderRaises

SpecDecoder == InitDecoder /\ [][NextDecoder]_vars

\* attention sublayers of one decoder layer in a call
DecoderSublayers == IF fn_in.enc.kind = "none" THEN 1 ELSE 2

\* the self-attention cache slice that layer l returns: the slice l passed
\* in, with the key/value of the layer's own input (the embedding after l
\* layers) at the position the index lists
DecoderSelfSliceOk(returned, b, l) ==
    \A kv \in 0..1 : \A j \in MaskPositions :
        IF fn_in.sindex.kind # "none" /\ fn_in.sindex.val[b][1] = j
        THEN /\ returned.val[b][l][kv][j].kv = kv
             /\ returned.val[b][l][kv][j].tok = DecoderSequence[b][1]
             /\ Len(returned.val[b][l][kv][j].ctx) = l * DecoderSublayers
        ELSE returned.val[b][l][kv][j] = fn_in.scache.val[b][l][kv][j]

\* the same layers, rows, halves and positions as the cache passed in
DecoderSameShape(returned, passed) ==
    /\ returned.kind = "some"
    /\ DOMAIN returned.val = DOMAIN passed.val
    /\ \A b \in DOMAIN passed.val :
          /\ DOMAIN returned.val[b] = DOMAIN passed.val[b]
          /\ \A l \in DOMAIN passed.val[b] :
                /\ DOMAIN returned.val[b][l] = DOMAIN passed.val[b][l]
                /\ \A kv \in DOMAIN passed.val[b][l] :
                      DOMAIN returned.val[b][l][kv] = DOMAIN passed.val[b][l][kv]

\* C25: the call returns, after the logits, one cache per cache supplied,
\* of the shape of the one supplied, whose slice l on the layers axis is
\* what layer l returned for slice l of the supplied cache, the layers
\* having run in order (layer l sees the output of l earlier layers).
C25_LayerSlices ==
    fn_in \in DecoderInputs =>
        /\ pc # "error"
        /\ pc = "returned" =>
              /\ Len(fn_out) = 1 + (IF fn_in.scache.kind # "none" THEN 1 ELSE 0)
                                 + (IF fn_in.ccache.kind # "none" THEN 1 ELSE 0)
              /\ fn_in.scache.kind # "none" =>
                    /\ DecoderSameShape(fn_out[2], fn_in.scache)
                    /\ \A b \in BatchRows : \A l \in 0..NumLayers - 1 :
                          DecoderSelfSliceOk(fn_out[2], b, l)
              /\ fn_in.ccache.kind # "none" =>
                    /\ DecoderSameShape(fn_out[Len(fn_out)], fn_in.ccache)
                    /\ fn_in.cindex.kind = "none" =>
                          fn_out[Len(fn_out)] = fn_in.ccache

(* --------- utils/samplers.py: Sampler.sample --------------------------- *)
\* The older sampler keeps the whole batch in one dense tensor `sequences`
\* of width max_sequence_length and one position per row in `indices`.
\* fn_in: the prompts (learned tokens), the tokenizer's max_sequence_length
\* and the device the kernels run on; fn_out: input_sequences and
\* target_positions as computed on entry, the loop variables sequences and
\* indices, the iterations run, and the strings returned.
UtilsVocabularyIds == {PAD_TOKEN_ID, eos_token_id, FirstLearnedId}

UtilsInputs ==
    [input_sequences : [BatchRows -> SeqsUpTo({FirstLearnedId}, MaxPromptLen)],
     max_sequence_length : SequenceLengths,
     device : {"cpu", "gpu"}]

\* utils SMILESTokenizer.tokenize: [BOS] + tokens + [EOS], to_tensor with
\* shape [None, max_sequence_length] (cut or filled with 0); positions
\* count from 0
utils_tokenize(body, M) ==
    LET ids == <<bos_token_id>> \o body \o <<eos_token_id>>
    IN  [j \in 0..M - 1 |-> IF j + 1 <= Len(ids) THEN ids[j + 1] ELSE PAD_TOKEN_ID]

\* Sampler.sample, lines 40-46
UtilsInputSequences ==
    [b \in BatchRows |->
        LET ids == utils_tokenize(fn_in.input_sequences[b], fn_in.max_sequence_length)
        IN  [j \in DOMAIN ids |->
                IF ids[j] = eos_token_id THEN PAD_TOKEN_ID ELSE ids[j]]]

\* tf.math.bincount of the row ids of the pad positions: one count per row
\* up to the last row that holds a pad
bincount(seqs) ==
    LET count(b) == Cardinality({j \in DOMAIN seqs[b] : seqs[b][j] = PAD_TOKEN_ID})
        last == Max({0} \cup {b \in DOMAIN seqs : count(b) > 0})
    IN  [b \in 1..last |-> count(b)]

\* Sampler.sample, lines 48-54
UtilsTargetPositions ==
    LET counts == bincount(UtilsInputSequences)
    IN  [b \in DOMAIN counts |-> fn_in.max_sequence_length - counts[b] - 1]

\* tf.gather(sequences, indices, batch_dims=1) for row b; outside the
\* tensor the GPU kernel yields 0 (the CPU kernel is never reached there:
\* the write before it has failed)
UtilsLastToken(sequences, indices, b) ==
    IF indices[b] \in DOMAIN sequences[b] THEN sequences[b][indices[b]] ELSE 0

\* Sampler.sample.cond
UtilsCond(sequences, indices) ==
    \E b \in BatchRows :
        /\ indices[b] + 1 < fn_in.max_sequence_length
        /\ UtilsLastToken(sequences, indices, b) # eos_token_id

\* a variant of the body's mask without the end-token test
UtilsMask_ignores_end(sequences, indices, b) ==
    indices[b] < fn_in.max_sequence_length

\* Sampler.sample.body, lines 95-98
UtilsMask(sequences, indices, b) ==
    /\ indices[b] < fn_in.max_sequence_length
    /\ UtilsLastToken(sequences, indices, b) # eos_token_id

\* the body's scatter targets a position outside sequences
UtilsBodyOob(sequences, indices) ==
    \E b \in BatchRows :
        /\ UtilsMask(sequences, indices, b)
        /\ indices[b] + 1 \notin DOMAIN sequences[b]

\* utils SMILESTokenizer.detokenize: the mask, begin and end token texts
\* are removed from the joined string
RECURSIVE utils_detokenize(_, _)
utils_detokenize(ids, j) ==
    IF j \notin DOMAIN ids THEN <<>>
    ELSE (IF ids[j] \in {PAD_TOKEN_ID, bos_token_id, eos_token_id}
          THEN <<>> ELSE <<ids[j]>>) \o utils_detokenize(ids, j + 1)

InitUtils ==
    /\ pc = "call"
    /\ fn_in \in UtilsInputs
    /\ fn_out = [input_sequences |-> <<>>, target_positions |-> <<>>,
                 sequences |-> <<>>, indices |-> <<>>, iterations |-> 0,
                 result |-> <<>>]
    /\ SamplerUnset

UtilsUpdate(next_pc, where, value) ==
    /\ pc' = next_pc
    /\ raised' = where
    /\ fn_out' = value
    /\ UNCHANGED <<decoder_sequence, decoder_sequence_type, encoder_sequence,
                   sequence_length, embedding_dim, decoder_input, tokens,
                   self_attention_cache, self_attention_cache_update_index,
                   logits, write_log, decoder_output, result, fn_in>>

\* Sampler.sample, lines 40-55 and the entry of tf.while_loop
UtilsEnter ==
    /\ pc = "call"
    /\ DOMAIN UtilsTargetPositions = BatchRows
    /\ UtilsUpdate("loop", raised,
           [fn_out EXCEPT !.input_sequences = UtilsInputSequences,
                          !.target_positions = UtilsTargetPositions,
                          !.sequences = UtilsInputSequences,
                          !.indices = UtilsTargetPositions])

\* the last row holds no pad: target_positions is shorter than the batch
\* and tf.gather(sequences, indices, batch_dims=1) in cond raises
UtilsEnterRaises ==
    /\ pc = "call"
    /\ DOMAIN UtilsTargetPositions # BatchRows
    /\ UtilsUpdate("error", "gather", fn_out)

UtilsBodyReturn(sequences, indices, sampled_token) ==
    UtilsUpdate("loop", raised,
        [fn_out EXCEPT
            !.sequences = [b \in BatchRows |-> [j \in DOMAIN sequences[b] |->
                IF UtilsMask(sequences, indices, b) /\ j = indices[b] + 1
                THEN sampled_token[b] ELSE sequences[b][j]]],
            !.indices = [b \in BatchRows |->
                IF UtilsMask(sequences, indices, b)
                THEN indices[b] + 1 ELSE indices[b]],
            !.iterations = @ + 1])

\* Sampler.sample.body; a write outside sequences is dropped by the GPU
\* kernel of tensor_scatter_nd_update
UtilsBody ==
    /\ pc = "loop"
    /\ UtilsCond(fn_out.sequences, fn_out.indices)
    /\ UtilsBodyOob(fn_out.sequences, fn_out.indices) => fn_in.device = "gpu"
    /\ \E sampled_token \in [BatchRows -> UtilsVocabularyIds] :
          UtilsBodyReturn(fn_out.sequences, fn_out.indices, sampled_token)

\* the CPU kernel of tensor_scatter_nd_update fails on that write
UtilsBodyRaises ==
    /\ pc = "loop"
    /\ UtilsCond(fn_out.sequences, fn_out.indices)
    /\ UtilsBodyOob(fn_out.sequences, fn_out.indices)
    /\ fn_in.device = "cpu"
    /\ UtilsUpdate("error", "scatter", fn_out)

\* cond is false: Sampler.sample, line 117
UtilsFinish ==
    /\ pc = "loop"
    /\ ~ UtilsCond(fn_out.sequences, fn_out.indices)
    /\ UtilsUpdate("returned", raised,
           [fn_out EXCEPT !.result = [b \in BatchRows |->
               utils_detokenize(fn_out.sequences[b], 0)]])

NextUtils ==
    UtilsEnter \/ UtilsEnterRaises \/ UtilsBody \/ UtilsBodyRaises \/ UtilsFinish

SpecUtils == InitUtils /\ [][NextUtils]_vars

\* C28: every iteration writes only at positions index + 1 below
\* max_sequence_length, and every row's index stays at most
\* max_sequence_length - 1: no write and no read leaves the tensor.
C28_UtilsWritesInRange ==
    fn_in \in UtilsInputs =>
        /\ ~ (pc = "error" /\ raised = "scatter")
        /\ pc \in {"loop", "returned"} =>
              /\ \A b \in BatchRows :
                    fn_out.indices[b] \in 0..fn_in.max_sequence_length - 1
              /\ pc = "loop" /\ UtilsCond(fn_out.sequences, fn_out.indices) =>
                    ~ UtilsBodyOob(fn_out.sequences, fn_out.indices)

\* tf.while_loop runs the body as long as cond holds, and sample returns
\* when it does not: a call never stops half way by itself
SpecUtilsFair == SpecUtils /\ WF_vars(NextUtils)

\* a row is closed: it ended with the end token or reached the length bound
UtilsClosed(b) ==
    \/ fn_out.indices[b] = fn_in.max_sequence_length - 1
    \/ UtilsLastToken(fn_out.sequences, fn_out.indices, b) = eos_token_id

\* C29: the loop terminates for any model output: it never runs more than
\* max_sequence_length - 1 iterations, and the call eventually returns with
\* every row closed (no row raises).
C29_UtilsTerminates ==
    /\ [](fn_out.iterations <= fn_in.max_sequence_length - 1)
    /\ <>(pc = "returned" /\ \A b \in BatchRows : UtilsClosed(b))

\* C30: an iteration changes neither the tokens nor the index of a row
\* whose last token is the end token, and never a token at or before the
\* row's initial last-token position.
C30_UtilsFrame ==
    [][pc = "loop" /\ pc' = "loop" =>
          \A b \in BatchRows :
              /\ UtilsLastToken(fn_out.sequences, fn_out.indices, b) = eos_token_id =>
                    /\ fn_out'.sequences[b] = fn_out.sequences[b]
                    /\ fn_out'.indices[b] = fn_out.indices[b]
              /\ \A j \in 0..fn_out.target_positions[b] :
                    fn_out'.sequences[b][j] = fn_out.input_sequences[b][j]]_vars

\* C30 witness: the first row emitted the end token in the first iteration
\* and kept its tokens and index while the second row wrote again.
C30_Witness ==
    /\ pc = "loop"
    /\ fn_out.iterations = 2
    /\ fn_out.sequences[1][1] = eos_token_id
    /\ fn_out.sequences[1][2] = PAD_TOKEN_ID
    /\ fn_out.indices[1] = 1
    /\ fn_out.indices[2] = 2
    /\ fn_out.sequences[2][2] = FirstLearnedId
    /\ fn_out.sequences[2][0] = bos_token_id

====
